---- MODULE Spec2Model ----
(***************************************************************************)
(* A model of dschat/rlhf/ppo_trainer.py (DeepSpeedPPOTrainer): the        *)
(* experience generator with its last-valid-rollout cache, the PPO         *)
(* training step with the three-optimizer overflow coordination, and the   *)
(* numeric kernels (reward blending, reward shaping, GAE, the two losses). *)
(*                                                                         *)
(* A batch of token rows is a sequence of rows, a row a sequence of       *)
(* tokens.  The tensors of the numeric kernels are functions over 0-based  *)
(* index ranges, as in the source.  Real numbers are exact rationals       *)
(* <<numerator, denominator>>; floating point rounding is not modelled.    *)
(***************************************************************************)
EXTENDS Integers, Sequences, FiniteSets, TLC

VARIABLES
    training,                  \* module.training of each of the six models
    last_generated_experience, \* self.last_generated_experience
    prompt_length,             \* self.prompt_length
    skip_step,                 \* optimizer.skip_step of the three engines
    align_overflow,            \* args.align_overflow
    pc,                        \* position of the one running call
    prompts,                   \* generate_experience: local prompts
    generated,                 \* _generate_sequence: seq returned by generate()
    seq,                       \* generate_experience: local seq
    rollout,                   \* the value generate_experience returned last
    overflow,                  \* train_rlhf: the three overflow locals
    log,                       \* engine calls issued by the running call
    error,                     \* the exception that ended the process, if any
    last_valid,                \* history: rollout of the last successful generation
    gen_mode,                  \* history: training flags seen by generate()
    fwd_mode,                  \* history: training flags seen by the forward passes
    call,                      \* arguments of the numeric kernel under evaluation
    ret                        \* its return value

vars == <<training, last_generated_experience, prompt_length, skip_step,
          align_overflow, pc, prompts, generated, seq, rollout, overflow,
          log, error, last_valid, gen_mode, fwd_mode, call, ret>>

mainVars == <<training, last_generated_experience, prompt_length, skip_step,
              align_overflow, pc, prompts, generated, seq, rollout, overflow,
              log, error, last_valid, gen_mode, fwd_mode>>

kernelVars == <<call, ret>>

----------------------------------------------------------------------------
(* Bounds of the exploration *)

MaxBatch == 2

\* compute_rewards: rows of a batch, generated tokens of a row
RewardRows == 2

RewardGenLen == 3

\* get_advantages_and_returns: length of a trajectory
GaeLen == 3

\* the loss functions: entries of a slice
LossLen == 2

\* Python's None, for a dictionary or record, and for a tensor or list
None == [none |-> TRUE]

NoSeq == <<>>

----------------------------------------------------------------------------
(* Exact rational arithmetic standing for torch float arithmetic *)

Abs(n) == IF n < 0 THEN -n ELSE n

RECURSIVE Gcd(_, _)
Gcd(a, b) == IF b = 0 THEN a ELSE Gcd(b, a % b)

Rat(n, d) ==
    LET s == IF d < 0 THEN -1 ELSE 1
        g == Gcd(Abs(n), Abs(d))
    IN  <<(s * n) \div g, (s * d) \div g>>

R(n) == <<n, 1>>

RAdd(a, b) == Rat(a[1] * b[2] + b[1] * a[2], a[2] * b[2])

RNeg(a) == <<-a[1], a[2]>>

RSub(a, b) == RAdd(a, RNeg(b))

RMul(a, b) == Rat(a[1] * b[1], a[2] * b[2])

RLeq(a, b) == a[1] * b[2] <= b[1] * a[2]

RMax(a, b) == IF RLeq(a, b) THEN b ELSE a

RMin(a, b) == IF RLeq(a, b) THEN a ELSE b

\* torch.clamp(x, lo, hi)
RClamp(x, lo, hi) == RMin(RMax(x, lo), hi)

----------------------------------------------------------------------------
(* The six models and the three engines that own an optimizer *)

Models == {"actor", "fact_critic", "gen_critic", "ref", "fact_reward", "gen_reward"}

Engines == {"actor", "fact_critic", "gen_critic"}

\* tokenizer.pad_token_id
pad_token_id == 0

\* args.max_answer_seq_len
max_answer_seq_len == 2

----------------------------------------------------------------------------
(* _generate_sequence *)

\* prompt batches handed in by the training loop: row i holds the token i
PromptBatch(b) == [i \in 1..b |-> <<i>>]

PromptBatches == {PromptBatch(b) : b \in 1..MaxBatch}

\* what actor.generate may return for a prompt batch: every row is its prompt
\* followed by max_answer_seq_len tokens, each a padding or a real token
Continuations == [1..max_answer_seq_len -> {pad_token_id, 1}]

Generations(p) ==
    {[i \in 1..Len(p) |-> p[i] \o c[i]] : c \in [1..Len(p) -> Continuations]}

\* ans = seq[:, prompt_length:]
Ans(row, plen) == SubSeq(row, plen + 1, Len(row))

\* valid_ans_len = (ans != pad_token_id).sum(dim=-1)
ValidAnsLen(row, plen) ==
    Cardinality({k \in DOMAIN Ans(row, plen) : Ans(row, plen)[k] # pad_token_id})

\* a faulty variant of TooShort that keeps the one-token answers
TooShortBelowOne(n) == n < 1

\* the test of line 119: valid_ans_len[i] <= 1
TooShort(n) == n <= 1

\* the loop of lines 117-128 from row i on, out_seq being what it has kept
RECURSIVE FilterLoop(_, _, _, _)
FilterLoop(raw, plen, i, out_seq) ==
    IF i > Len(raw) THEN out_seq
    ELSE IF TooShort(ValidAnsLen(raw[i], plen))
         THEN FilterLoop(raw, plen, i + 1, out_seq)
         ELSE FilterLoop(raw, plen, i + 1, Append(out_seq, raw[i]))

\* the value _generate_sequence returns for the batch generate() produced
GenerateSequence(p, raw) ==
    LET out_seq == FilterLoop(raw, Len(p[1]), 1, <<>>)
    IN  IF out_seq = <<>> THEN NoSeq ELSE out_seq

\* seq.not_equal(pad_token_id).long()
AttentionMask(s) ==
    [i \in 1..Len(s) |-> [k \in 1..Len(s[i]) |-> IF s[i][k] # pad_token_id THEN 1 ELSE 0]]

----------------------------------------------------------------------------
(* mode toggles *)

\* DeepSpeedPPOTrainer.train
TrainModes(t) == [m \in Models |-> IF m \in Engines THEN TRUE ELSE t[m]]

\* a faulty variant of EvalModes that leaves the critics in training mode
EvalModesActorOnly(t) == [m \in Models |-> IF m = "actor" THEN FALSE ELSE t[m]]

\* DeepSpeedPPOTrainer.eval
EvalModes(t) == [m \in Models |-> FALSE]

\* _validate_training_mode
ValidTrainingMode(t) == \A m \in Engines : t[m]

----------------------------------------------------------------------------
(* Tensor helpers *)

\* a Python list or tuple as a function over 0..len-1
ZSeq(s) == [i \in 0..(Len(s) - 1) |-> s[i + 1]]

\* the number of entries of a 0-based vector
Size(f) == Cardinality(DOMAIN f)

\* f[lo] + ... + f[hi] of an integer vector
RECURSIVE SumFrom(_, _, _)
SumFrom(f, lo, hi) == IF lo > hi THEN 0 ELSE f[lo] + SumFrom(f, lo + 1, hi)

----------------------------------------------------------------------------
(* The reward blend of train_rlhf, lines 226-242 *)

candidate_labels == <<"factual question", "generative question">>

\* a faulty variant of FactProb that takes the top score whatever its label
FactProbTopScore(dic) == dic.scores[0]

\* lines 232-239: the score of the label 'factual question'
FactProb(dic) ==
    IF dic.labels[0] = "factual question" THEN dic.scores[0] ELSE dic.scores[1]

\* lines 232-240: the score of the other label
GenProb(dic) ==
    IF dic.labels[0] = "factual question" THEN dic.scores[1] ELSE dic.scores[0]

\* line 242: the list comprehension over range(len(fact_prob)); indexing a
\* reward score past the last row raises IndexError
WeightedRewardScore(ls_of_dic, fact_reward_score, gen_reward_score) ==
    IF \E j \in DOMAIN ls_of_dic :
           j \notin DOMAIN fact_reward_score \/ j \notin DOMAIN gen_reward_score
    THEN [raised |-> "IndexError"]
    ELSE [raised |-> "none",
          value |-> [j \in DOMAIN ls_of_dic |->
                       RAdd(RMul(fact_reward_score[j], FactProb(ls_of_dic[j])),
                            RMul(gen_reward_score[j], GenProb(ls_of_dic[j])))]]

----------------------------------------------------------------------------
(* compute_rewards, lines 194-207 *)

\* self.kl_ctl = 0.1
kl_ctl == <<1, 10>>

\* self.clip_reward_value = 5*2
clip_reward_value == R(5 * 2)

\* line 197
KlDivergenceEstimate(log_probs, ref_log_probs) ==
    [j \in DOMAIN log_probs |->
       [t \in DOMAIN log_probs[j] |->
          RMul(RNeg(kl_ctl), RSub(log_probs[j][t], ref_log_probs[j][t]))]]

\* a faulty variant of Ends without the closing + 1
EndsNoPlusOne(start, action_mask) ==
    [j \in DOMAIN action_mask |->
       start + SumFrom(action_mask[j], start, Size(action_mask[j]) - 1)]

\* line 200: ends = start + action_mask[:, start:].sum(1) + 1
Ends(start, action_mask) ==
    [j \in DOMAIN action_mask |->
       start + SumFrom(action_mask[j], start, Size(action_mask[j]) - 1) + 1]

\* line 201
RewardClip(reward_score) ==
    [j \in DOMAIN reward_score |->
       RClamp(reward_score[j], RNeg(clip_reward_value), clip_reward_value)]

\* the index x[start:end][-1] names in a row of the given length: Python cuts
\* the slice at the end of the row
SliceLast(start, end, length) == (IF end < length THEN end ELSE length) - 1

\* lines 194-207
compute_rewards(prompt_len, log_probs, ref_log_probs, reward_score, action_mask) ==
    LET kl_divergence_estimate == KlDivergenceEstimate(log_probs, ref_log_probs)
        start == prompt_len - 1
        ends == Ends(start, action_mask)
        reward_clip == RewardClip(reward_score)
    IN  [j \in DOMAIN log_probs |->
           [t \in DOMAIN log_probs[j] |->
              IF t = SliceLast(start, ends[j], Size(log_probs[j]))
              THEN RAdd(kl_divergence_estimate[j][t], reward_clip[j])
              ELSE kl_divergence_estimate[j][t]]]

----------------------------------------------------------------------------
(* get_advantages_and_returns, lines 368-380 *)

\* self.gamma = 1.0
gamma == R(1)

\* self.lam = 0.95
lam == <<19, 20>>

\* reversed(range(start, length)) as a list
ReversedRange(start, length) == [i \in 1..(length - start) |-> length - i]

\* a faulty variant of Reversed that keeps the order
ReversedNot(s) == s

\* advantages_reversed[::-1]
Reversed(s) == [i \in 1..Len(s) |-> s[Len(s) + 1 - i]]

\* line 374: nextvalues = values[:, t + 1] if t < length - 1 else 0.0
NextValues(values, t, length) ==
    [j \in DOMAIN values |-> IF t < length - 1 THEN values[j][t + 1] ELSE R(0)]

\* lines 373-377: the loop over the positions ts still to come, with the
\* running lastgaelam and the list advantages_reversed
RECURSIVE GaeLoop(_, _, _, _, _, _, _)
GaeLoop(values, rewards, g, l, ts, lastgaelam, advantages_reversed) ==
    IF ts = <<>> THEN advantages_reversed
    ELSE LET t == Head(ts)
             length == Size(rewards[0])
             nextvalues == NextValues(values, t, length)
             delta == [j \in DOMAIN values |->
                         RSub(RAdd(rewards[j][t], RMul(g, nextvalues[j])),
                              values[j][t])]
             newgae == [j \in DOMAIN values |->
                          RAdd(delta[j], RMul(RMul(g, l), lastgaelam[j]))]
         IN  GaeLoop(values, rewards, g, l, Tail(ts), newgae,
                     Append(advantages_reversed, newgae))

\* lines 368-380, with self.gamma = g and self.lam = l
get_advantages_and_returns(values, rewards, start, g, l) ==
    LET length == Size(rewards[0])
        advantages_reversed ==
            GaeLoop(values, rewards, g, l, ReversedRange(start, length),
                    [j \in DOMAIN values |-> R(0)], <<>>)
        stacked == Reversed(advantages_reversed)
        advantages == [j \in DOMAIN values |->
                         [k \in 0..(Len(stacked) - 1) |-> stacked[k + 1][j]]]
        returns == [j \in DOMAIN values |->
                      [k \in DOMAIN advantages[j] |->
                         RAdd(advantages[j][k], values[j][start + k])]]
    IN  [advantages |-> advantages, returns |-> returns]

----------------------------------------------------------------------------
(* actor_loss_fn and critic_loss_fn, lines 337-366 *)

\* the float a division 0/0 yields
NaN == <<0, 0>>

\* float division: torch raises nothing on a zero divisor, 0/0 is nan (a
\* masked sum over an all-zero mask is 0, so x/0 with x # 0 does not arise)
FDiv(a, b) == IF b[1] = 0 THEN NaN ELSE Rat(a[1] * b[2], a[2] * b[1])

\* float addition and multiplication: nan propagates
FAdd(a, b) == IF a = NaN \/ b = NaN THEN NaN ELSE RAdd(a, b)

FMul(a, b) == IF a = NaN \/ b = NaN THEN NaN ELSE RMul(a, b)

\* self.cliprange = 0.2
cliprange == <<1, 5>>

\* self.cliprange_value = 0.2
cliprange_value == <<1, 5>>

\* torch.exp on log-probabilities counted in units of ln 2: exp(k ln 2) = 2^k
Exp(k) == IF k >= 0 THEN <<2 ^ k, 1>> ELSE <<1, 2 ^ (-k)>>

\* x[0] + ... + x[hi] of a rational vector
RECURSIVE RSumTo(_, _)
RSumTo(x, hi) == IF hi < 0 THEN R(0) ELSE RAdd(x[hi], RSumTo(x, hi - 1))

\* torch.sum(x * mask) / mask.sum() over a slice x with its mask
MaskedMean(x, mask) ==
    FDiv(RSumTo([t \in DOMAIN x |-> RMul(x[t], R(mask[t]))], Size(x) - 1),
         R(SumFrom(mask, 0, Size(mask) - 1)))

\* lines 337-350; the slices are taken flat, the sums running over every entry
actor_loss_fn(logprobs, old_logprobs, fact_advantages, gen_advantages, mask) ==
    LET log_ratio == [t \in DOMAIN logprobs |-> (logprobs[t] - old_logprobs[t]) * mask[t]]
        ratio == [t \in DOMAIN logprobs |-> Exp(log_ratio[t])]
        clamped == [t \in DOMAIN logprobs |->
                      RClamp(ratio[t], RSub(R(1), cliprange), RAdd(R(1), cliprange))]
        fact_pg_loss1 == [t \in DOMAIN logprobs |-> RMul(RNeg(fact_advantages[t]), ratio[t])]
        fact_pg_loss2 == [t \in DOMAIN logprobs |-> RMul(RNeg(fact_advantages[t]), clamped[t])]
        gen_pg_loss1 == [t \in DOMAIN logprobs |-> RMul(RNeg(gen_advantages[t]), ratio[t])]
        gen_pg_loss2 == [t \in DOMAIN logprobs |-> RMul(RNeg(gen_advantages[t]), clamped[t])]
        fact_pg_loss ==
            MaskedMean([t \in DOMAIN logprobs |-> RMax(fact_pg_loss1[t], fact_pg_loss2[t])], mask)
        gen_pg_loss ==
            MaskedMean([t \in DOMAIN logprobs |-> RMax(gen_pg_loss1[t], gen_pg_loss2[t])], mask)
    IN  FAdd(fact_pg_loss, gen_pg_loss)

\* lines 352-366
critic_loss_fn(values, old_values, returns, mask) ==
    LET values_clipped ==
            [t \in DOMAIN values |->
               RClamp(values[t], RSub(old_values[t], cliprange_value),
                      RAdd(old_values[t], cliprange_value))]
        vf_loss1 == [t \in DOMAIN values |->
                       RMul(RSub(values[t], returns[t]), RSub(values[t], returns[t]))]
        vf_loss2 == [t \in DOMAIN values |->
                       RMul(RSub(values_clipped[t], returns[t]),
                            RSub(values_clipped[t], returns[t]))]
    IN  FMul(<<1, 2>>,
             MaskedMean([t \in DOMAIN values |-> RMax(vf_loss1[t], vf_loss2[t])], mask))

----------------------------------------------------------------------------
(* Initial state: a freshly constructed trainer, nothing running *)

Init ==
    /\ training = [m \in Models |-> m \in Engines]
    /\ last_generated_experience = None
    /\ prompt_length = 0
    /\ skip_step = [e \in Engines |-> FALSE]
    /\ align_overflow \in BOOLEAN
    /\ pc = "idle"
    /\ prompts = NoSeq
    /\ generated = NoSeq
    /\ seq = NoSeq
    /\ rollout = None
    /\ overflow = None
    /\ log = <<>>
    /\ error = "none"
    /\ last_valid = None
    /\ gen_mode = None
    /\ fwd_mode = None
    /\ call = None
    /\ ret = None

----------------------------------------------------------------------------
(* generate_experience, one action per stretch of its body *)

\* the call, line 142
GE_Call(p) ==
    /\ pc = "idle"
    /\ pc' = "ge_eval"
    /\ prompts' = p
    /\ rollout' = None
    /\ log' = <<>>
    /\ gen_mode' = None
    /\ fwd_mode' = None
    /\ UNCHANGED <<training, last_generated_experience, prompt_length, skip_step,
                   align_overflow, generated, seq, overflow, error, last_valid>>
    /\ UNCHANGED kernelVars

\* self.eval(), line 143
GE_Eval ==
    /\ pc = "ge_eval"
    /\ pc' = "ge_generate"
    /\ training' = EvalModes(training)
    /\ UNCHANGED <<last_generated_experience, prompt_length, skip_step,
                   align_overflow, prompts, generated, seq, rollout, overflow,
                   log, error, last_valid, gen_mode, fwd_mode>>
    /\ UNCHANGED kernelVars

\* seq = self._generate_sequence(prompts, mask, step), line 145
GE_Generate ==
    /\ pc = "ge_generate"
    /\ pc' = "ge_select"
    /\ \E raw \in Generations(prompts) :
          /\ generated' = raw
          /\ seq' = GenerateSequence(prompts, raw)
          /\ last_valid' =
                LET kept == SelectSeq(raw,
                              LAMBDA r : ValidAnsLen(r, Len(prompts[1])) >= 2)
                IN  IF kept # <<>> THEN [prompts |-> prompts, seq |-> kept]
                    ELSE last_valid
    /\ prompt_length' = Len(prompts[1])
    /\ gen_mode' = training
    /\ UNCHANGED <<training, last_generated_experience, skip_step, align_overflow,
                   prompts, rollout, overflow, log, error, fwd_mode>>
    /\ UNCHANGED kernelVars

\* a faulty variant of SelectRollout that goes on without a cached rollout
SelectRolloutNoAssert(lge, p, s) ==
    IF s = NoSeq /\ lge # None
    THEN [raised |-> FALSE, prompts |-> lge.prompts, seq |-> lge.seq, cache |-> lge]
    ELSE [raised |-> FALSE, prompts |-> p, seq |-> s,
          cache |-> IF s = NoSeq THEN lge ELSE [prompts |-> p, seq |-> s]]

\* a faulty variant of SelectRollout that caches only the first valid rollout
SelectRolloutKeepFirst(lge, p, s) ==
    IF s = NoSeq
    THEN IF lge = None
         THEN [raised |-> TRUE, prompts |-> p, seq |-> s, cache |-> lge]
         ELSE [raised |-> FALSE, prompts |-> lge.prompts, seq |-> lge.seq, cache |-> lge]
    ELSE [raised |-> FALSE, prompts |-> p, seq |-> s,
          cache |-> IF lge = None THEN [prompts |-> p, seq |-> s] ELSE lge]

\* lines 147-152: with the cache lge, the prompts p and the filtered batch s,
\* whether the assertion fails, and else the prompts and seq that go on and
\* the new content of the cache
SelectRollout(lge, p, s) ==
    IF s = NoSeq
    THEN IF lge = None
         THEN [raised |-> TRUE, prompts |-> p, seq |-> s, cache |-> lge]
         ELSE [raised |-> FALSE, prompts |-> lge.prompts, seq |-> lge.seq, cache |-> lge]
    ELSE [raised |-> FALSE, prompts |-> p, seq |-> s,
          cache |-> [prompts |-> p, seq |-> s]]

\* lines 147-152: fall back to the cached rollout, or cache the new one
GE_Select ==
    /\ pc = "ge_select"
    /\ generated' = NoSeq
    /\ LET r == SelectRollout(last_generated_experience, prompts, seq)
       IN  /\ pc' = IF r.raised THEN "failed" ELSE "ge_train"
           /\ error' = IF r.raised THEN "AssertionError" ELSE error
           /\ prompts' = r.prompts
           /\ seq' = r.seq
           /\ last_generated_experience' = r.cache
    /\ UNCHANGED <<training, prompt_length, skip_step, align_overflow, rollout,
                   overflow, log, last_valid, gen_mode, fwd_mode>>
    /\ UNCHANGED kernelVars

\* self.train(), line 153
GE_Train ==
    /\ pc = "ge_train"
    /\ pc' = "ge_forward"
    /\ training' = TrainModes(training)
    /\ UNCHANGED <<last_generated_experience, prompt_length, skip_step,
                   align_overflow, prompts, generated, seq, rollout, overflow,
                   log, error, last_valid, gen_mode, fwd_mode>>
    /\ UNCHANGED kernelVars

\* the no-gradient forward passes, lines 155-171
GE_Forward ==
    /\ pc = "ge_forward"
    /\ pc' = "ge_return"
    /\ fwd_mode' = training
    /\ UNCHANGED <<training, last_generated_experience, prompt_length, skip_step,
                   align_overflow, prompts, generated, seq, rollout, overflow,
                   log, error, last_valid, gen_mode>>
    /\ UNCHANGED kernelVars

\* the returned dictionary, lines 181-192
GE_Return ==
    /\ pc = "ge_return"
    /\ pc' = "idle"
    /\ rollout' = [prompts |-> prompts, input_ids |-> seq,
                   attention_mask |-> AttentionMask(seq)]
    /\ prompts' = NoSeq
    /\ seq' = NoSeq
    /\ UNCHANGED <<training, last_generated_experience, prompt_length, skip_step,
                   align_overflow, generated, overflow, log, error, last_valid,
                   gen_mode, fwd_mode>>
    /\ UNCHANGED kernelVars

\* the public mode toggles, called by the training loop between steps
Train ==
    /\ pc = "idle"
    /\ training' = TrainModes(training)
    /\ UNCHANGED <<last_generated_experience, prompt_length, skip_step,
                   align_overflow, pc, prompts, generated, seq, rollout, overflow,
                   log, error, last_valid, gen_mode, fwd_mode>>
    /\ UNCHANGED kernelVars

Eval ==
    /\ pc = "idle"
    /\ training' = EvalModes(training)
    /\ UNCHANGED <<last_generated_experience, prompt_length, skip_step,
                   align_overflow, pc, prompts, generated, seq, rollout, overflow,
                   log, error, last_valid, gen_mode, fwd_mode>>
    /\ UNCHANGED kernelVars

----------------------------------------------------------------------------
(* train_rlhf, one action per stretch of its body *)

\* line 242 indexes fact_reward_score[j] and gen_reward_score[j] for every j
\* in range(len(fact_prob)): one j per row of prompts, one score per row of seq
BlendIndexable(inputs) == Len(inputs.prompts) <= Len(inputs.input_ids)

\* a faulty variant of SkipPolicy that does what the messages of lines
\* 306-317 print: an overflow anywhere marks all three optimizers
SkipPolicyAll(o, skip) ==
    IF o["actor"] \/ o["fact_critic"] \/ o["gen_critic"]
    THEN [e \in Engines |-> TRUE]
    ELSE skip

\* the skip policy of lines 302-317
SkipPolicy(o, skip) ==
    IF o["actor"] /\ ~o["fact_critic"] /\ ~o["gen_critic"]
    THEN [skip EXCEPT !["fact_critic"] = TRUE, !["gen_critic"] = TRUE]
    ELSE IF ~o["actor"] /\ (o["fact_critic"] \/ o["gen_critic"])
         THEN [skip EXCEPT !["actor"] = TRUE]
         ELSE skip

\* lines 209-263: the old outputs, the blended reward, advantages and returns
TR_ProcessOld ==
    /\ pc = "idle"
    /\ rollout # None
    /\ log' = <<>>
    /\ IF BlendIndexable(rollout)
       THEN pc' = "tr_actor_backward" /\ UNCHANGED error
       ELSE pc' = "failed" /\ error' = "IndexError"
    /\ UNCHANGED <<training, last_generated_experience, prompt_length, skip_step,
                   align_overflow, prompts, generated, seq, rollout, overflow,
                   last_valid, gen_mode, fwd_mode>>
    /\ UNCHANGED kernelVars

\* lines 266-272: actor forward, actor loss, actor backward
TR_ActorBackward ==
    /\ pc = "tr_actor_backward"
    /\ log' = Append(log, <<"backward", "actor">>)
    /\ pc' = IF ~align_overflow THEN "tr_actor_step_early" ELSE "tr_critic_backward"
    /\ UNCHANGED <<training, last_generated_experience, prompt_length, skip_step,
                   align_overflow, prompts, generated, seq, rollout, overflow,
                   error, last_valid, gen_mode, fwd_mode>>
    /\ UNCHANGED kernelVars

\* lines 274-275: the actor steps at once when overflow is not aligned
TR_ActorStepEarly ==
    /\ pc = "tr_actor_step_early"
    /\ log' = Append(log, <<"step", "actor">>)
    /\ pc' = "tr_critic_backward"
    /\ UNCHANGED <<training, last_generated_experience, prompt_length, skip_step,
                   align_overflow, prompts, generated, seq, rollout, overflow,
                   error, last_valid, gen_mode, fwd_mode>>
    /\ UNCHANGED kernelVars

\* lines 277-291: critic forwards, critic losses, both critic backwards
TR_CriticBackward ==
    /\ pc = "tr_critic_backward"
    /\ log' = log \o <<(<<"backward", "fact_critic">>), (<<"backward", "gen_critic">>)>>
    /\ pc' = IF align_overflow THEN "tr_check_overflow" ELSE "tr_critic_step"
    /\ UNCHANGED <<training, last_generated_experience, prompt_length, skip_step,
                   align_overflow, prompts, generated, seq, rollout, overflow,
                   error, last_valid, gen_mode, fwd_mode>>
    /\ UNCHANGED kernelVars

\* lines 294-299: the three check_overflow(external=True) reads
TR_CheckOverflow ==
    /\ pc = "tr_check_overflow"
    /\ overflow' \in [Engines -> BOOLEAN]
    /\ log' = log \o <<(<<"check_overflow", "actor">>),
                        (<<"check_overflow", "fact_critic">>),
                        (<<"check_overflow", "gen_critic">>)>>
    /\ pc' = "tr_skip"
    /\ UNCHANGED <<training, last_generated_experience, prompt_length, skip_step,
                   align_overflow, prompts, generated, seq, rollout, error,
                   last_valid, gen_mode, fwd_mode>>
    /\ UNCHANGED kernelVars

\* lines 302-317: the skip decision
TR_Skip ==
    /\ pc = "tr_skip"
    /\ skip_step' = SkipPolicy(overflow, skip_step)
    /\ log' = Append(log, <<"skip_policy", "all">>)
    /\ pc' = "tr_actor_step"
    /\ UNCHANGED <<training, last_generated_experience, prompt_length,
                   align_overflow, prompts, generated, seq, rollout, overflow,
                   error, last_valid, gen_mode, fwd_mode>>
    /\ UNCHANGED kernelVars

\* a faulty variant of TR_ActorStep that honours the actor's skip flag itself
\* and issues no step when it is set
TR_ActorStepHonoured ==
    /\ pc = "tr_actor_step"
    /\ log' = IF skip_step["actor"] THEN log ELSE Append(log, <<"step", "actor">>)
    /\ pc' = "tr_critic_step"
    /\ UNCHANGED <<training, last_generated_experience, prompt_length, skip_step,
                   align_overflow, prompts, generated, seq, rollout, overflow,
                   error, last_valid, gen_mode, fwd_mode>>
    /\ UNCHANGED kernelVars

\* line 318: the actor step of the aligned path
TR_ActorStep ==
    /\ pc = "tr_actor_step"
    /\ log' = Append(log, <<"step", "actor">>)
    /\ pc' = "tr_critic_step"
    /\ UNCHANGED <<training, last_generated_experience, prompt_length, skip_step,
                   align_overflow, prompts, generated, seq, rollout, overflow,
                   error, last_valid, gen_mode, fwd_mode>>
    /\ UNCHANGED kernelVars

\* lines 320-323: both critic steps, then the return
TR_CriticStep ==
    /\ pc = "tr_critic_step"
    /\ log' = log \o <<(<<"step", "fact_critic">>), (<<"step", "gen_critic">>)>>
    /\ overflow' = None
    /\ pc' = "idle"
    /\ UNCHANGED <<training, last_generated_experience, prompt_length, skip_step,
                   align_overflow, prompts, generated, seq, rollout, error,
                   last_valid, gen_mode, fwd_mode>>
    /\ UNCHANGED kernelVars

\* train_unsupervised, lines 436-445
TrainUnsupervised ==
    /\ pc = "idle"
    /\ IF ValidTrainingMode(training)
       THEN /\ log' = <<(<<"backward", "actor">>), (<<"step", "actor">>)>>
            /\ UNCHANGED <<pc, error>>
       ELSE /\ pc' = "failed"
            /\ error' = "AssertionError"
            /\ log' = <<>>
    /\ UNCHANGED <<training, last_generated_experience, prompt_length, skip_step,
                   align_overflow, prompts, generated, seq, rollout, overflow,
                   last_valid, gen_mode, fwd_mode>>
    /\ UNCHANGED kernelVars

----------------------------------------------------------------------------
(* The trainer as driven by the training loop: one call at a time *)

Next ==
    \/ \E p \in PromptBatches : GE_Call(p)
    \/ GE_Eval
    \/ GE_Generate
    \/ GE_Select
    \/ GE_Train
    \/ GE_Forward
    \/ GE_Return
    \/ Train
    \/ Eval
    \/ TR_ProcessOld
    \/ TR_ActorBackward
    \/ TR_ActorStepEarly
    \/ TR_CriticBackward
    \/ TR_CheckOverflow
    \/ TR_Skip
    \/ TR_ActorStep
    \/ TR_CriticStep
    \/ TrainUnsupervised

Spec == Init /\ [][Next]_vars

----------------------------------------------------------------------------
(* The numeric kernels, each applied to arguments drawn from small sets *)

\* what the zero-shot classifier may return for one prompt: the two candidate
\* labels ranked by score, the scores adding up to 1
ClassifierOutputs ==
    {[labels |-> ZSeq(l), scores |-> ZSeq(sc)] :
        l \in {candidate_labels, <<candidate_labels[2], candidate_labels[1]>>},
        sc \in {<<R(1), R(0)>>, <<(<<3, 4>>), (<<1, 4>>)>>, <<(<<1, 2>>), (<<1, 2>>)>>}}

\* the pairs of a factual and a generative reward score of one example
RewardScorePairs == {<<R(-1), R(4)>>, <<R(2), R(1)>>}

\* a blend over b classified prompts and r scored sequences
BlendCall(c) ==
    \E b \in 1..MaxBatch, r \in 1..MaxBatch :
    \E d \in [0..(b - 1) -> ClassifierOutputs], fg \in [0..(r - 1) -> RewardScorePairs] :
        c = [fn |-> "blend", ls_of_dic |-> d,
             fact_reward_score |-> [j \in 0..(r - 1) |-> fg[j][1]],
             gen_reward_score |-> [j \in 0..(r - 1) |-> fg[j][2]]]

\* the action masks of a row with prompt length p: the prompt and the first n
\* generated tokens real, and one with the first generated token a padding
ActionMasks(p) ==
    LET len == p + RewardGenLen - 1
    IN  {[t \in 0..(len - 1) |-> IF t < p - 1 + n THEN 1 ELSE 0] : n \in 1..RewardGenLen}
        \cup {[t \in 0..(len - 1) |-> IF t = p - 1 THEN 0 ELSE 1]}

\* the log-probabilities of a row: those of the reference, or further from
\* them at every next position
LogProbRows(len) ==
    {[t \in 0..(len - 1) |-> R(-1)], [t \in 0..(len - 1) |-> R(-(t + 2))]}

RewardRowInputs(p) ==
    [log_probs : LogProbRows(p + RewardGenLen - 1),
     action_mask : ActionMasks(p),
     reward_score : {R(-12), R(3), R(12)}]

\* compute_rewards on a batch of b rows with prompt length p
RewardCall(c) ==
    \E p \in {1, 2}, b \in 1..RewardRows :
    \E rows \in [0..(b - 1) -> RewardRowInputs(p)] :
        c = [fn |-> "compute_rewards",
             prompt_len |-> p,
             log_probs |-> [j \in DOMAIN rows |-> rows[j].log_probs],
             ref_log_probs |-> [j \in DOMAIN rows |->
                                  [t \in 0..(p + RewardGenLen - 2) |-> R(-1)]],
             reward_score |-> [j \in DOMAIN rows |-> rows[j].reward_score],
             action_mask |-> [j \in DOMAIN rows |-> rows[j].action_mask]]

\* the pairs self.gamma, self.lam: the values set in __init__, no discount
\* and no smoothing, and a half of each
GaeSettings == {<<gamma, lam>>, <<R(1), R(1)>>, <<(<<1, 2>>), (<<1, 2>>)>>}

\* get_advantages_and_returns on one trajectory (the recurrence treats every
\* row of a batch alone)
GaeCall(c) ==
    \E len \in 1..GaeLen :
    \E v \in [0..(len - 1) -> {R(0), R(1)}], r \in [0..(len - 1) -> {R(-1), R(1)}],
       st \in 0..(len - 1), gl \in GaeSettings :
        c = [fn |-> "get_advantages_and_returns",
             values |-> [j \in {0} |-> v], rewards |-> [j \in {0} |-> r],
             start |-> st, gamma |-> gl[1], lam |-> gl[2]]

\* the pairs of a factual and a generative advantage of one position
AdvantagePairs == {<<R(-1), R(2)>>, <<R(1), R(-1)>>}

\* actor_loss_fn on a slice of len entries, log-probabilities in units of ln 2
ActorLossCall(c) ==
    \E len \in 1..LossLen :
    \E lp \in [0..(len - 1) -> {-2, -1, 0}], adv \in [0..(len - 1) -> AdvantagePairs],
       m \in [0..(len - 1) -> {0, 1}] :
        c = [fn |-> "actor_loss_fn",
             logprobs |-> lp, old_logprobs |-> [t \in 0..(len - 1) |-> -1],
             fact_advantages |-> [t \in 0..(len - 1) |-> adv[t][1]],
             gen_advantages |-> [t \in 0..(len - 1) |-> adv[t][2]],
             mask |-> m]

\* critic_loss_fn on a slice of len entries
CriticLossCall(c) ==
    \E len \in 1..LossLen :
    \E v \in [0..(len - 1) -> {R(0), R(1)}], ov \in [0..(len - 1) -> {R(0), <<1, 2>>}],
       r \in [0..(len - 1) -> {R(0), R(1)}], m \in [0..(len - 1) -> {0, 1}] :
        c = [fn |-> "critic_loss_fn",
             values |-> v, old_values |-> ov, returns |-> r, mask |-> m]

KernelInit ==
    /\ training = [m \in Models |-> m \in Engines]
    /\ last_generated_experience = None
    /\ prompt_length = 0
    /\ skip_step = [e \in Engines |-> FALSE]
    /\ align_overflow = FALSE
    /\ pc = "kernel"
    /\ prompts = NoSeq
    /\ generated = NoSeq
    /\ seq = NoSeq
    /\ rollout = None
    /\ overflow = None
    /\ log = <<>>
    /\ error = "none"
    /\ last_valid = None
    /\ gen_mode = None
    /\ fwd_mode = None
    /\ ret = None
    /\ \/ BlendCall(call)
       \/ RewardCall(call)
       \/ GaeCall(call)
       \/ ActorLossCall(call)
       \/ CriticLossCall(call)

Blend ==
    /\ call.fn = "blend"
    /\ ret = None
    /\ ret' = WeightedRewardScore(call.ls_of_dic, call.fact_reward_score,
                                  call.gen_reward_score)
    /\ UNCHANGED <<call, mainVars>>

ComputeRewards ==
    /\ call.fn = "compute_rewards"
    /\ ret = None
    /\ ret' = [value |-> compute_rewards(call.prompt_len, call.log_probs,
                                         call.ref_log_probs, call.reward_score,
                                         call.action_mask)]
    /\ UNCHANGED <<call, mainVars>>

GetAdvantagesAndReturns ==
    /\ call.fn = "get_advantages_and_returns"
    /\ ret = None
    /\ ret' = get_advantages_and_returns(call.values, call.rewards, call.start,
                                         call.gamma, call.lam)
    /\ UNCHANGED <<call, mainVars>>

ActorLoss ==
    /\ call.fn = "actor_loss_fn"
    /\ ret = None
    /\ ret' = [value |-> actor_loss_fn(call.logprobs, call.old_logprobs,
                                       call.fact_advantages, call.gen_advantages,
                                       call.mask)]
    /\ UNCHANGED <<call, mainVars>>

CriticLoss ==
    /\ call.fn = "critic_loss_fn"
    /\ ret = None
    /\ ret' = [value |-> critic_loss_fn(call.values, call.old_values, call.returns,
                                        call.mask)]
    /\ UNCHANGED <<call, mainVars>>

KernelNext ==
    \/ Blend
    \/ ComputeRewards
    \/ GetAdvantagesAndReturns
    \/ ActorLoss
    \/ CriticLoss

KernelSpec == KernelInit /\ [][KernelNext]_vars

----------------------------------------------------------------------------
(* Properties of the trainer *)

Critics == {"fact_critic", "gen_critic"}

TrainRlhfPcs == {"tr_actor_backward", "tr_actor_step_early", "tr_critic_backward",
                 "tr_check_overflow", "tr_skip", "tr_actor_step", "tr_critic_step"}

\* the number of non-padding tokens after the prompt in a generated row
RealAnswerTokens(row) ==
    Cardinality({k \in (Len(prompts[1]) + 1)..Len(row) : row[k] # pad_token_id})

\* the rows of the generated batch that hold at least 2 real answer tokens
KeptIndices == {i \in 1..Len(generated) : RealAnswerTokens(generated[i]) >= 2}

\* the k-th of them in batch order
KeptIndex(k) == CHOOSE i \in KeptIndices : Cardinality({j \in KeptIndices : j < i}) = k - 1

\* C1: with overflow coordination enabled the skip decision changes the
\* skip_step flags exactly as the table says: the actor optimizer's flag is
\* set when the actor did not overflow and a critic did, both critic
\* optimizers' flags are set when the actor overflowed and no critic did, and
\* no flag changes otherwise.
C1_SkipTable ==
    [][pc = "tr_skip" =>
         LET A == overflow["actor"]
             C == overflow["fact_critic"] \/ overflow["gen_critic"]
         IN  /\ align_overflow
             /\ skip_step'["actor"] = (skip_step["actor"] \/ (~A /\ C))
             /\ \A c \in Critics : skip_step'[c] = (skip_step[c] \/ (A /\ ~C))]_vars

\* C1 happens: the actor alone overflowed, both critics got marked
C1_Witness ==
    /\ pc = "tr_actor_step"
    /\ overflow["actor"] /\ ~overflow["fact_critic"] /\ ~overflow["gen_critic"]
    /\ skip_step["fact_critic"] /\ skip_step["gen_critic"] /\ ~skip_step["actor"]

\* C2: when the generation drops every sequence of the batch, a cached
\* rollout supplies the prompts and sequences of the returned rollout and the
\* cache stays as it is; without a cached rollout the call fails with an
\* assertion error and returns no rollout.
C2_FallbackOrFail ==
    /\ [][(pc = "ge_select" /\ KeptIndices = {}) =>
            IF last_generated_experience # None
            THEN /\ pc' = "ge_train"
                 /\ prompts' = last_generated_experience.prompts
                 /\ seq' = last_generated_experience.seq
                 /\ last_generated_experience' = last_generated_experience
            ELSE /\ pc' = "failed"
                 /\ error' = "AssertionError"
                 /\ rollout' = None]_vars
    /\ [][(pc \in {"ge_train", "ge_forward"}) =>
            (UNCHANGED <<prompts, seq, last_generated_experience>>)]_vars
    /\ [][pc = "ge_return" =>
            /\ rollout'.prompts = prompts
            /\ rollout'.input_ids = seq
            /\ last_generated_experience' = last_generated_experience]_vars

\* C2 happens: a generation with every row dropped meets a rollout cached by
\* an earlier call with another prompt batch
C2_Witness ==
    /\ pc = "ge_select"
    /\ KeptIndices = {}
    /\ seq = NoSeq
    /\ last_generated_experience # None
    /\ last_generated_experience.prompts # prompts

\* C3: between calls the cache holds the prompts and filtered sequences of
\* the most recent call whose generation kept a sequence (nothing while no call
\* has); such a call replaces the entry, a call whose batch was dropped whole
\* leaves it, and once set the cache is never empty again.
C3_CacheIsLastValid ==
    /\ [](pc \in {"idle", "failed"} => last_generated_experience = last_valid)
    /\ [][pc = "ge_select" =>
            IF KeptIndices # {}
            THEN last_generated_experience' =
                   [prompts |-> prompts,
                    seq |-> [k \in 1..Cardinality(KeptIndices) |-> generated[KeptIndex(k)]]]
            ELSE last_generated_experience' = last_generated_experience]_vars
    /\ [][pc # "ge_select" =>
            last_generated_experience' = last_generated_experience]_vars
    /\ [][last_generated_experience # None => last_generated_experience' # None]_vars

\* C3 happens: a generation that kept a sequence meets an older cache entry,
\* which it is about to replace
C3_Witness ==
    /\ pc = "ge_select"
    /\ KeptIndices # {}
    /\ last_generated_experience # None
    /\ last_generated_experience # last_valid

C9_NoBackwardInEvalMode ==
    (pc \in TrainRlhfPcs /\ log # <<>>) => ValidTrainingMode(training)

\* C10 as stated: the forward passes of generate_experience run while the
\* actor and both critics are in evaluation mode.
C10_ForwardInEvalMode ==
    fwd_mode # None => \A m \in Engines : ~fwd_mode[m]

\* C10, amended: the generation runs while all six models are in evaluation
\* mode; training mode is restored to the actor and both critics after the
\* generation and before the forward passes, which run with these three in
\* training mode and the reference and reward models in evaluation mode.
C10_GenerateInEvalForwardInTrain ==
    /\ gen_mode # None => \A m \in Models : ~gen_mode[m]
    /\ fwd_mode # None =>
          /\ gen_mode # None
          /\ \A m \in Engines : fwd_mode[m]
          /\ \A m \in Models \ Engines : ~fwd_mode[m]
    /\ pc \in {"ge_generate", "ge_select", "ge_train"} => \A m \in Models : ~training[m]
    /\ pc \in {"ge_forward", "ge_return"} => \A m \in Engines : training[m]

\* C10 happens: a call has generated and run its forward passes
C10_Witness ==
    /\ pc = "ge_return"
    /\ gen_mode # None /\ ~gen_mode["actor"]
    /\ fwd_mode # None /\ fwd_mode["actor"] /\ ~fwd_mode["ref"]

\* the positions of the log that hold the event ev
EventPositions(l, ev) == {k \in 1..Len(l) : l[k] = ev}

\* in the log l the engine e got exactly one backward and, after it, exactly
\* one step
OneBackwardThenOneStep(l, e) ==
    /\ Cardinality(EventPositions(l, <<"backward", e>>)) = 1
    /\ Cardinality(EventPositions(l, <<"step", e>>)) = 1
    /\ \A b \in EventPositions(l, <<"backward", e>>) :
       \A s \in EventPositions(l, <<"step", e>>) : b < s

\* the engine events of a call with overflow coordination, in the claimed order
AlignedOrder ==
    <<(<<"backward", "actor">>), (<<"backward", "fact_critic">>),
      (<<"backward", "gen_critic">>),
      (<<"check_overflow", "actor">>), (<<"check_overflow", "fact_critic">>),
      (<<"check_overflow", "gen_critic">>),
      (<<"skip_policy", "all">>),
      (<<"step", "actor">>), (<<"step", "fact_critic">>), (<<"step", "gen_critic">>)>>

\* C11: when a train_rlhf call completes, each of the three engines has got
\* exactly one backward and then exactly one step, whatever the overflow flags
\* read and whatever skip flags are set; and with overflow coordination the
\* engine events of the call are, in this order, the three backwards, the
\* three flag reads, the skip decision, the actor step and both critic steps
C11_OneBackwardThenOneStepInOrder ==
    [][(pc = "tr_critic_step" /\ pc' = "idle") =>
          /\ \A e \in Engines : OneBackwardThenOneStep(log', e)
          /\ align_overflow => log' = AlignedOrder]_vars

\* C11 happens: a call with overflow coordination has completed while the
\* skip flags of all three optimizers were set
C11_Witness ==
    /\ pc = "idle"
    /\ align_overflow
    /\ Len(log) = Len(AlignedOrder)
    /\ \A e \in Engines : skip_step[e]

\* the row r starts with the row p
StartsWith(r, p) == Len(p) <= Len(r) /\ SubSeq(r, 1, Len(p)) = p

\* C12: in every rollout generate_experience returned, 'prompts' and
\* 'input_ids' have the same number of rows and row i of 'input_ids' starts
\* with row i of 'prompts'
C12_RolloutRowsAligned ==
    rollout # None =>
        /\ Len(rollout.prompts) = Len(rollout.input_ids)
        /\ \A i \in 1..Len(rollout.prompts) :
              StartsWith(rollout.input_ids[i], rollout.prompts[i])

----------------------------------------------------------------------------
(* Properties of the numeric kernels *)

\* compute_rewards has returned
RewardsReturned == call.fn = "compute_rewards" /\ ret # None

\* the number of real continuation tokens of row j: the ones of its action
\* mask from the last prompt position on
RealContinuationTokens(j) ==
    Cardinality({t \in (call.prompt_len - 1)..(Size(call.action_mask[j]) - 1) :
                   call.action_mask[j][t] = 1})

\* -kl_ctl * (logprob[t] - ref_logprob[t]) with kl_ctl = 0.1
KlPenalty(j, t) ==
    LET d == RSub(call.log_probs[j][t], call.ref_log_probs[j][t])
    IN  Rat(-d[1], 10 * d[2])

\* the terminal reward of row j clipped to [-10, 10]
ClippedReward(j) ==
    LET r == call.reward_score[j]
    IN  IF r[1] > 10 * r[2] THEN R(10) ELSE IF r[1] < -10 * r[2] THEN R(-10) ELSE r

\* the rewards of row j are the KL penalty, plus the clipped terminal reward
\* at position pos alone
RewardsWithTerminalAt(j, pos) ==
    \A t \in DOMAIN ret.value[j] :
        ret.value[j][t] =
            IF t = pos THEN RAdd(KlPenalty(j, t), ClippedReward(j)) ELSE KlPenalty(j, t)

\* C5 as stated: for every row with 2 or more real continuation tokens, up
\* to a continuation without padding, the terminal reward is added at position
\* prompt_length - 1 + (number of real continuation tokens).
C5_TerminalAtPromptPlusCount ==
    RewardsReturned =>
        \A j \in DOMAIN call.log_probs :
            RealContinuationTokens(j) >= 2 =>
                RewardsWithTerminalAt(j, call.prompt_len - 1 + RealContinuationTokens(j))

\* the position that receives the terminal reward of row j
TerminalPosition(j) ==
    LET end == call.prompt_len - 1 + RealContinuationTokens(j)
        last == Size(call.log_probs[j]) - 1
    IN  IF end < last THEN end ELSE last

\* C5, amended: for every row with 2 or more real continuation tokens the
\* reward is the KL penalty at every position but one, where the clipped
\* terminal reward is added: position prompt_length - 1 + (number of real
\* continuation tokens) when that is a position of the trajectory, and the last
\* position of the trajectory for a continuation without padding; with zero KL
\* the row is zero except for the clipped terminal reward there.
C5_TerminalAtLastOrCount ==
    RewardsReturned =>
        /\ DOMAIN ret.value = DOMAIN call.log_probs
        /\ \A j \in DOMAIN call.log_probs :
              RealContinuationTokens(j) >= 2 =>
                /\ DOMAIN ret.value[j] = DOMAIN call.log_probs[j]
                /\ RewardsWithTerminalAt(j, TerminalPosition(j))
                /\ call.log_probs[j] = call.ref_log_probs[j] =>
                      \A t \in DOMAIN ret.value[j] :
                          ret.value[j][t] =
                              IF t = TerminalPosition(j) THEN ClippedReward(j) ELSE R(0)

\* C5 happens: a batch with a row of 2 real tokens followed by padding and a
\* row without padding, both with a terminal reward above the clip value
C5_Witness ==
    /\ RewardsReturned
    /\ Size(call.log_probs) = 2
    /\ call.prompt_len = 2
    /\ RealContinuationTokens(0) = 2
    /\ RealContinuationTokens(1) = RewardGenLen
    /\ call.reward_score[0] = R(12)
    /\ call.reward_score[1] = R(12)
    /\ call.log_probs[0] = call.ref_log_probs[0]
    /\ ret.value[0][call.prompt_len + 1] = R(10)
    /\ call.log_probs[1] # call.ref_log_probs[1]

\* get_advantages_and_returns has returned
GaeReturned == call.fn = "get_advantages_and_returns" /\ ret # None

\* value[t] of the one row, with value[length] = 0
ValueAt(t) == IF t >= Size(call.values[0]) THEN R(0) ELSE call.values[0][t]

\* delta[t] = reward[t] + gamma * value[t+1] - value[t]
TdResidual(t) ==
    RSub(RAdd(call.rewards[0][t], RMul(call.gamma, ValueAt(t + 1))), ValueAt(t))

\* lastgae at t by the recurrence: delta[t] + gamma * lambda * lastgae at t + 1
RECURSIVE LastGae(_)
LastGae(t) ==
    IF t >= Size(call.rewards[0]) THEN R(0)
    ELSE RAdd(TdResidual(t), RMul(RMul(call.gamma, call.lam), LastGae(t + 1)))

\* delta[t] + ... + delta[length - 1]
RECURSIVE TdResidualSum(_)
TdResidualSum(t) ==
    IF t >= Size(call.rewards[0]) THEN R(0)
    ELSE RAdd(TdResidual(t), TdResidualSum(t + 1))

\* C6: get_advantages_and_returns yields one advantage and one return for
\* each position t of [start, length): the advantage is lastgae of the backward
\* recurrence and the return is advantage + value; with gamma = lambda = 1 the
\* advantage is the sum of the TD residuals from t on, and for start =
\* length - 1 the advantage is reward - value and the return the reward.
C6_GaeRecurrence ==
    GaeReturned =>
        LET length == Size(call.rewards[0])
            start == call.start
        IN  /\ DOMAIN ret.advantages[0] = 0..(length - start - 1)
            /\ DOMAIN ret.returns[0] = 0..(length - start - 1)
            /\ \A t \in start..(length - 1) :
                  /\ ret.advantages[0][t - start] = LastGae(t)
                  /\ ret.returns[0][t - start] = RAdd(LastGae(t), call.values[0][t])
                  /\ (call.gamma = R(1) /\ call.lam = R(1)) =>
                        ret.advantages[0][t - start] = TdResidualSum(t)
            /\ start = length - 1 =>
                  /\ ret.advantages[0][0] =
                        RSub(call.rewards[0][start], call.values[0][start])
                  /\ ret.returns[0][0] = call.rewards[0][start]

\* C6 happens: three positions under the settings of __init__, with
\* advantages that differ from position to position
C6_Witness ==
    /\ GaeReturned
    /\ call.gamma = gamma /\ call.lam = lam
    /\ call.start = 0
    /\ Size(call.rewards[0]) = 3
    /\ ret.advantages[0][0] # ret.advantages[0][2]
    /\ ret.advantages[0][0] # R(0)

\* the blend has been computed without an error
Blended == call.fn = "blend" /\ ret # None /\ ret.raised = "none"

\* the score the classifier attached to a label
ScoreOf(dic, label) == dic.scores[CHOOSE i \in DOMAIN dic.labels : dic.labels[i] = label]

\* C7: the blended terminal reward of example j is fact_reward[j] * p_fact[j]
\* + gen_reward[j] * p_gen[j], p_fact[j] and p_gen[j] being the scores attached
\* to 'factual question' and 'generative question' whichever ranks first; so
\* for the pair (1,0) it is the factual score, for (0,1) the generative
\* score and for (0.5,0.5) their average.
C7_BlendByLabelScore ==
    Blended =>
        /\ DOMAIN ret.value = DOMAIN call.ls_of_dic
        /\ \A j \in DOMAIN call.ls_of_dic :
              LET p_fact == ScoreOf(call.ls_of_dic[j], "factual question")
                  p_gen == ScoreOf(call.ls_of_dic[j], "generative question")
                  f == call.fact_reward_score[j]
                  g == call.gen_reward_score[j]
              IN  /\ ret.value[j] = RAdd(RMul(f, p_fact), RMul(g, p_gen))
                  /\ (p_fact = R(1) /\ p_gen = R(0)) => ret.value[j] = f
                  /\ (p_fact = R(0) /\ p_gen = R(1)) => ret.value[j] = g
                  /\ (p_fact = <<1, 2>> /\ p_gen = <<1, 2>>) =>
                        RMul(R(2), ret.value[j]) = RAdd(f, g)

\* C7 happens: one example ranked 'generative question' first with score 1,
\* the other ranked 'factual question' first with score 3/4
C7_Witness ==
    /\ Blended
    /\ Size(call.ls_of_dic) = 2
    /\ call.ls_of_dic[0].labels[0] = "generative question"
    /\ call.ls_of_dic[0].scores[0] = R(1)
    /\ ret.value[0] = call.gen_reward_score[0]
    /\ call.ls_of_dic[1].labels[0] = "factual question"
    /\ call.ls_of_dic[1].scores[0] = <<3, 4>>

\* C8: actor_loss_fn and critic_loss_fn return a defined loss, not the result
\* of a division by zero, when the mask passed to them sums to zero.
C8_LossDefinedOnEmptyMask ==
    (/\ call.fn \in {"actor_loss_fn", "critic_loss_fn"}
     /\ ret # None
     /\ \A t \in DOMAIN call.mask : call.mask[t] = 0)
        => ret.value # NaN

====
